---- MODULE Spec2Model ----
(***************************************************************************)
(* A model of the type checkers of KushibikiMashu/book-shelf               *)
(* (Type-Systems-Distilled-with-TypeScript): the structural equality       *)
(* engine with equi-recursive types (ch.8-rec.ts), the recursive-type      *)
(* unfolder, the subtyping engine and the type-checking drivers.           *)
(*                                                                         *)
(* The checkers are pure functions, so each is an operator computed as the *)
(* code computes it, and the specifications draw the inputs from bounded   *)
(* sets of types and terms and apply the functions to them.                *)
(***************************************************************************)
EXTENDS Integers, Sequences, FiniteSets, TLC

VARIABLES pc, ty1, ty2, ty3, term, env, res

vars == <<pc, ty1, ty2, ty3, term, env, res>>

(***************************************************************************)
(* Data model: the tagged variants of Type (ch.8-rec.ts 26-34).            *)
(***************************************************************************)
TBoolean == [tag |-> "Boolean"]
TNumber == [tag |-> "Number"]
TFunc(params, retType) == [tag |-> "Func", params |-> params, retType |-> retType]
TObject(props) == [tag |-> "Object", props |-> props]
TRec(name, type) == [tag |-> "Rec", name |-> name, type |-> type]
TTypeVar(name) == [tag |-> "TypeVar", name |-> name]
\* Param and PropertyType have the same shape: a name and a type.
Param(name, type) == [name |-> name, type |-> type]

(***************************************************************************)
(* Outcomes of a call: a returned value, a thrown exception, or a          *)
(* recursion that never returns (the JavaScript runtime ends it with a     *)
(* stack overflow; no value is returned).                                  *)
(***************************************************************************)
Ret(v) == [ret |-> v]
Throw(msg) == [throw |-> msg]
Diverges == [diverges |-> TRUE]
IsRet(o) == "ret" \in DOMAIN o
IsThrow(o) == "throw" \in DOMAIN o

\* The type environment and the renaming map are plain object literals ({}
\* and spread copies), so obj[name] of a name the object does not bind is
\* undefined only when Object.prototype has no property of that name;
\* otherwise the lookup yields the inherited value, which has no tag.
\* These are the names of Object.prototype on a host that keeps the
\* accessor __proto__ (Node); Deno, which the files of the repository run
\* on (npm: imports, deno run), deletes that one name.
ObjectPrototypeNames ==
    {"constructor", "hasOwnProperty", "isPrototypeOf", "propertyIsEnumerable",
     "toLocaleString", "toString", "valueOf", "__proto__",
     "__defineGetter__", "__defineSetter__", "__lookupGetter__", "__lookupSetter__"}
Inherited(name) == [tag |-> "undefined", inherited |-> name]

\* A value that is no Type and has no tag of its own: the string of a tag or
\* of a name, the array of a params or props field.
NonType(v) == [tag |-> "undefined", value |-> v]

\* Array.prototype.find on a list of named entries: the index of the first
\* entry with that name, 0 when there is none (find returns undefined).
find(props, name) ==
    IF \E i \in 1..Len(props) : props[i].name = name
    THEN CHOOSE i \in 1..Len(props) :
            /\ props[i].name = name
            /\ \A j \in 1..(i - 1) : props[j].name # name
    ELSE 0

(***************************************************************************)
(* Recursive-type unfolder (ch.8-rec.ts 134-176).                          *)
(***************************************************************************)
\* Mutant: the Rec case substitutes in the body even when the Rec rebinds
\* the name being replaced.
RECURSIVE expandTypeIgnoresBinder(_, _, _)
expandTypeIgnoresBinder(ty, tyVarName, repTy) ==
    CASE ty.tag \in {"Boolean", "Number"} -> ty
      [] ty.tag = "Func" ->
            TFunc([i \in 1..Len(ty.params) |->
                      Param(ty.params[i].name,
                            expandTypeIgnoresBinder(ty.params[i].type, tyVarName, repTy))],
                  expandTypeIgnoresBinder(ty.retType, tyVarName, repTy))
      [] ty.tag = "Object" ->
            TObject([i \in 1..Len(ty.props) |->
                      Param(ty.props[i].name,
                            expandTypeIgnoresBinder(ty.props[i].type, tyVarName, repTy))])
      [] ty.tag = "Rec" ->
            TRec(ty.name, expandTypeIgnoresBinder(ty.type, tyVarName, repTy))
      [] ty.tag = "TypeVar" ->
            IF ty.name = tyVarName THEN repTy ELSE ty

RECURSIVE expandType(_, _, _)
expandType(ty, tyVarName, repTy) ==
    CASE ty.tag \in {"Boolean", "Number"} -> ty
      [] ty.tag = "Func" ->
            TFunc([i \in 1..Len(ty.params) |->
                      Param(ty.params[i].name,
                            expandType(ty.params[i].type, tyVarName, repTy))],
                  expandType(ty.retType, tyVarName, repTy))
      [] ty.tag = "Object" ->
            TObject([i \in 1..Len(ty.props) |->
                      Param(ty.props[i].name,
                            expandType(ty.props[i].type, tyVarName, repTy))])
      [] ty.tag = "Rec" ->
            IF ty.name = tyVarName THEN ty
            ELSE TRec(ty.name, expandType(ty.type, tyVarName, repTy))
      [] ty.tag = "TypeVar" ->
            IF ty.name = tyVarName THEN repTy ELSE ty

\* Mutant: the binder is replaced by the body of the Rec, not by the Rec.
unfoldOnceWithBody(ty) == expandType(ty.type, ty.name, ty.type)

\* One unfolding of a Rec: the argument simplifyType passes to itself.
unfoldOnce(ty) == expandType(ty.type, ty.name, ty)

\* simplifyType calls itself on the unfolding as long as it is a Rec.  The
\* function is deterministic, so it never returns exactly when an unfolding
\* comes back to a Rec it has already been called with.
RECURSIVE simplifyFrom(_, _)
simplifyFrom(ty, visited) ==
    IF ty.tag # "Rec" THEN ty
    ELSE IF ty \in visited THEN Diverges
    ELSE simplifyFrom(unfoldOnce(ty), visited \cup {ty})

simplifyType(ty) == simplifyFrom(ty, {})

(***************************************************************************)
(* Structural equality engine (ch.8-rec.ts 37-131).                        *)
(***************************************************************************)
EmptyMap == [n \in {} |-> ""]
\* { ...map, [k]: v }
MapPut(map, k, v) == [n \in (DOMAIN map) \cup {k} |-> IF n = k THEN v ELSE map[n]]

\* An environment or a renaming map is an object: its own properties are
\* the domain of the function, and the prototype, once an assignment has
\* replaced Object.prototype by a type object, is kept under a key no
\* identifier can spell.
ProtoSlot == "[[Prototype]]"

\* The objects of a host whose Object.prototype has no accessor __proto__
\* (Deno) carry this mark; the objects of a host that has it (Node) carry
\* none.
HostSlot == "[[Host]]"

\* {} on a host without the accessor, and such an object with the own
\* properties of obj.
WithoutAccessor(obj) == MapPut(obj, HostSlot, "deno")

\* The own property names of an object.
OwnNames(obj) == (DOMAIN obj) \ {ProtoSlot, HostSlot}

\* The property names obj inherits from the Object.prototype of its host.
InheritedNames(obj) ==
    IF HostSlot \in DOMAIN obj THEN ObjectPrototypeNames \ {"__proto__"}
    ELSE ObjectPrototypeNames

\* {} on the host of obj.
EmptyObject(obj) ==
    IF HostSlot \in DOMAIN obj THEN WithoutAccessor(EmptyMap) ELSE EmptyMap

RECURSIVE typeEqNaive(_, _, _)
RECURSIVE naiveParams(_, _, _, _)
RECURSIVE naiveProps(_, _, _, _)

\* for (let i = 0; i < ty1.params.length; i++): ty2.params[i] is read without
\* a length check, so an index ty2 does not have is a TypeError.
naiveParams(ps1, ps2, i, map) ==
    IF i > Len(ps1) THEN Ret(TRUE)
    ELSE IF i > Len(ps2) THEN Throw("TypeError")
    ELSE LET r == typeEqNaive(ps1[i].type, ps2[i].type, map)
         IN IF r # Ret(TRUE) THEN r ELSE naiveParams(ps1, ps2, i + 1, map)

\* for (const prop1 of ty1.props)
naiveProps(props1, props2, i, map) ==
    IF i > Len(props1) THEN Ret(TRUE)
    ELSE LET j == find(props2, props1[i].name)
         IN IF j = 0 THEN Ret(FALSE)
            ELSE LET r == typeEqNaive(props1[i].type, props2[j].type, map)
                 IN IF r # Ret(TRUE) THEN r
                    ELSE naiveProps(props1, props2, i + 1, map)

typeEqNaive(t1, t2, map) ==
    CASE t2.tag \in {"Boolean", "Number"} -> Ret(t1.tag = t2.tag)
      [] t2.tag = "Func" ->
            IF t1.tag # "Func" THEN Ret(FALSE)
            ELSE LET p == naiveParams(t1.params, t2.params, 1, map)
                 IN IF p # Ret(TRUE) THEN p
                    ELSE typeEqNaive(t1.retType, t2.retType, map)
      [] t2.tag = "Object" ->
            IF t1.tag # "Object" THEN Ret(FALSE)
            ELSE IF Len(t1.props) # Len(t2.props) THEN Ret(FALSE)
            ELSE naiveProps(t1.props, t2.props, 1, map)
      [] t2.tag = "TypeVar" ->
            IF t1.tag # "TypeVar" THEN Ret(FALSE)
            ELSE IF t1.name \notin OwnNames(map)
                 THEN IF t1.name \in InheritedNames(map) THEN Ret(FALSE)
                      ELSE Throw("unknown type variable")
            ELSE Ret(map[t1.name] = t2.name)
      [] t2.tag = "Rec" ->
            IF t1.tag # "Rec" THEN Ret(FALSE)
            ELSE typeEqNaive(t1.type, t2.type, MapPut(map, t1.name, t2.name))
      [] OTHER -> Throw("typeEq error")

RECURSIVE typeEqSub(_, _, _, _)
RECURSIVE seenHit(_, _, _, _, _)
RECURSIVE subParams(_, _, _, _, _)
RECURSIVE subProps(_, _, _, _, _)

\* for (const [ty1_, ty2_] of seen): Ret(TRUE) on a hit, Ret(FALSE) when the
\* list is exhausted, and whatever typeEqNaive throws on the way.  empty is
\* the {} of the two calls, an object of the host the comparison runs on.
seenHit(t1, t2, seen, i, empty) ==
    IF i > Len(seen) THEN Ret(FALSE)
    ELSE LET a == typeEqNaive(seen[i][1], t1, empty)
         IN IF ~IsRet(a) THEN a
            ELSE IF ~a.ret THEN seenHit(t1, t2, seen, i + 1, empty)
            ELSE LET b == typeEqNaive(seen[i][2], t2, empty)
                 IN IF ~IsRet(b) THEN b
                    ELSE IF b.ret THEN Ret(TRUE)
                    ELSE seenHit(t1, t2, seen, i + 1, empty)

subParams(ps1, ps2, i, seen, empty) ==
    IF i > Len(ps1) THEN Ret(TRUE)
    ELSE LET r == typeEqSub(ps1[i].type, ps2[i].type, seen, empty)
         IN IF r # Ret(TRUE) THEN r ELSE subParams(ps1, ps2, i + 1, seen, empty)

\* Mutant: the fields are compared by position, without the lookup by name.
RECURSIVE subPropsByPosition(_, _, _, _, _)
subPropsByPosition(props1, props2, i, seen, empty) ==
    IF i > Len(props2) THEN Ret(TRUE)
    ELSE IF props1[i].name # props2[i].name THEN Ret(FALSE)
    ELSE LET r == typeEqSub(props1[i].type, props2[i].type, seen, empty)
         IN IF r # Ret(TRUE) THEN r
            ELSE subPropsByPosition(props1, props2, i + 1, seen, empty)

\* for (const prop2 of ty2.props)
subProps(props1, props2, i, seen, empty) ==
    IF i > Len(props2) THEN Ret(TRUE)
    ELSE LET j == find(props1, props2[i].name)
         IN IF j = 0 THEN Ret(FALSE)
            ELSE LET r == typeEqSub(props1[j].type, props2[i].type, seen, empty)
                 IN IF r # Ret(TRUE) THEN r
                    ELSE subProps(props1, props2, i + 1, seen, empty)

\* The dispatch on ty2.tag once neither side is a Rec.
typeEqShape(t1, t2, seen, empty) ==
    CASE t2.tag = "Boolean" -> Ret(t1.tag = "Boolean")
      [] t2.tag = "Number" -> Ret(t1.tag = "Number")
      [] t2.tag = "Func" ->
            IF t1.tag # "Func" THEN Ret(FALSE)
            ELSE IF Len(t1.params) # Len(t2.params) THEN Ret(FALSE)
            ELSE LET p == subParams(t1.params, t2.params, 1, seen, empty)
                 IN IF p # Ret(TRUE) THEN p
                    ELSE typeEqSub(t1.retType, t2.retType, seen, empty)
      [] t2.tag = "Object" ->
            IF t1.tag # "Object" THEN Ret(FALSE)
            ELSE IF Len(t1.props) # Len(t2.props) THEN Ret(FALSE)
            ELSE subProps(t1.props, t2.props, 1, seen, empty)
      [] t2.tag = "TypeVar" -> Throw("unreachable")
      [] OTHER -> Throw("typeEq error")

typeEqSub(t1, t2, seen, empty) ==
    LET h == seenHit(t1, t2, seen, 1, empty)
    IN IF h # Ret(FALSE) THEN h
       ELSE IF t1.tag = "Rec"
            THEN LET s == simplifyType(t1)
                 IN IF s = Diverges THEN Diverges
                    ELSE typeEqSub(s, t2, Append(seen, <<t1, t2>>), empty)
       ELSE IF t2.tag = "Rec"
            THEN LET s == simplifyType(t2)
                 IN IF s = Diverges THEN Diverges
                    ELSE typeEqSub(t1, s, Append(seen, <<t1, t2>>), empty)
       ELSE typeEqShape(t1, t2, seen, empty)

\* empty is the {} typeEqSub hands to typeEqNaive on the host of the call:
\* EmptyMap where Object.prototype has the accessor __proto__,
\* WithoutAccessor(EmptyMap) where it has not.
typeEq(t1, t2, empty) == typeEqSub(t1, t2, <<>>, empty)

(***************************************************************************)
(* Structural equality of the drivers without recursive types              *)
(* (part_001 223-254) and the subtyping engine (part_001 257-286).         *)
(***************************************************************************)
RECURSIVE typeEqStruct(_, _)
RECURSIVE structParams(_, _, _)
RECURSIVE structProps(_, _, _)

structParams(ps1, ps2, i) ==
    IF i > Len(ps1) THEN Ret(TRUE)
    ELSE LET r == typeEqStruct(ps1[i].type, ps2[i].type)
         IN IF r # Ret(TRUE) THEN r ELSE structParams(ps1, ps2, i + 1)

structProps(props1, props2, i) ==
    IF i > Len(props2) THEN Ret(TRUE)
    ELSE LET j == find(props1, props2[i].name)
         IN IF j = 0 THEN Ret(FALSE)
            ELSE LET r == typeEqStruct(props1[j].type, props2[i].type)
                 IN IF r # Ret(TRUE) THEN r
                    ELSE structProps(props1, props2, i + 1)

typeEqStruct(t1, t2) ==
    CASE t2.tag = "Boolean" -> Ret(t1.tag = "Boolean")
      [] t2.tag = "Number" -> Ret(t1.tag = "Number")
      [] t2.tag = "Func" ->
            IF t1.tag # "Func" THEN Ret(FALSE)
            ELSE IF Len(t1.params) # Len(t2.params) THEN Ret(FALSE)
            ELSE LET p == structParams(t1.params, t2.params, 1)
                 IN IF p # Ret(TRUE) THEN p
                    ELSE typeEqStruct(t1.retType, t2.retType)
      [] t2.tag = "Object" ->
            IF t1.tag # "Object" THEN Ret(FALSE)
            ELSE IF Len(t1.props) # Len(t2.props) THEN Ret(FALSE)
            ELSE structProps(t1.props, t2.props, 1)
      [] OTHER -> Throw("typeEq error")

RECURSIVE subType(_, _)
RECURSIVE subTypeParams(_, _, _)
RECURSIVE subTypeProps(_, _, _)

\* Mutant: parameters compared covariantly, like the return type.
subTypeParamsCovariant(ps1, ps2, i) ==
    IF i > Len(ps1) THEN Ret(TRUE)
    ELSE LET r == subType(ps1[i].type, ps2[i].type)
         IN IF r # Ret(TRUE) THEN r ELSE subTypeParams(ps1, ps2, i + 1)

\* contravariant: subType(ty2.params[i].type, ty1.params[i].type)
subTypeParams(ps1, ps2, i) ==
    IF i > Len(ps1) THEN Ret(TRUE)
    ELSE LET r == subType(ps2[i].type, ps1[i].type)
         IN IF r # Ret(TRUE) THEN r ELSE subTypeParams(ps1, ps2, i + 1)

\* Mutant: the loop returns true after the first property of ty2.
subTypePropsFirstOnly(props1, props2, i) ==
    IF i > Len(props2) THEN Ret(TRUE)
    ELSE LET j == find(props1, props2[i].name)
         IN IF j = 0 THEN Ret(FALSE)
            ELSE subType(props1[j].type, props2[i].type)

\* for (const prop2 of ty2.props): ty1 must have every property of ty2
subTypeProps(props1, props2, i) ==
    IF i > Len(props2) THEN Ret(TRUE)
    ELSE LET j == find(props1, props2[i].name)
         IN IF j = 0 THEN Ret(FALSE)
            ELSE LET r == subType(props1[j].type, props2[i].type)
                 IN IF r # Ret(TRUE) THEN r
                    ELSE subTypeProps(props1, props2, i + 1)

\* Mutant: the Object case keeps the property-count check of typeEq.
subTypeSameWidth(t1, t2) ==
    CASE t2.tag = "Boolean" -> Ret(t1.tag = "Boolean")
      [] t2.tag = "Number" -> Ret(t1.tag = "Number")
      [] t2.tag = "Func" ->
            IF t1.tag # "Func" THEN Ret(FALSE)
            ELSE IF Len(t1.params) # Len(t2.params) THEN Ret(FALSE)
            ELSE LET p == subTypeParams(t1.params, t2.params, 1)
                 IN IF p # Ret(TRUE) THEN p
                    ELSE subType(t1.retType, t2.retType)
      [] t2.tag = "Object" ->
            IF t1.tag # "Object" THEN Ret(FALSE)
            ELSE IF Len(t1.props) # Len(t2.props) THEN Ret(FALSE)
            ELSE subTypeProps(t1.props, t2.props, 1)
      [] OTHER -> Throw("subType error")

subType(t1, t2) ==
    CASE t2.tag = "Boolean" -> Ret(t1.tag = "Boolean")
      [] t2.tag = "Number" -> Ret(t1.tag = "Number")
      [] t2.tag = "Func" ->
            IF t1.tag # "Func" THEN Ret(FALSE)
            ELSE IF Len(t1.params) # Len(t2.params) THEN Ret(FALSE)
            ELSE LET p == subTypeParams(t1.params, t2.params, 1)
                 IN IF p # Ret(TRUE) THEN p
                    ELSE subType(t1.retType, t2.retType)
      [] t2.tag = "Object" ->
            IF t1.tag # "Object" THEN Ret(FALSE)
            ELSE subTypeProps(t1.props, t2.props, 1)
      [] OTHER -> Throw("subType error")

(***************************************************************************)
(* Terms (ch.8-rec.ts 8-24) and the type environment.                      *)
(***************************************************************************)
TmTrue == [tag |-> "true"]
TmFalse == [tag |-> "false"]
TmIf(cond, thn, els) == [tag |-> "if", cond |-> cond, thn |-> thn, els |-> els]
TmNumber(n) == [tag |-> "number", n |-> n]
TmAdd(left, right) == [tag |-> "add", left |-> left, right |-> right]
TmVar(name) == [tag |-> "var", name |-> name]
TmFunc(params, body) == [tag |-> "func", params |-> params, body |-> body]
TmCall(func, args) == [tag |-> "call", func |-> func, args |-> args]
TmSeq(body, rest) == [tag |-> "seq", body |-> body, rest |-> rest]
TmConst(name, init, rest) ==
    [tag |-> "const", name |-> name, init |-> init, rest |-> rest]
TmObjectNew(props) == [tag |-> "objectNew", props |-> props]
TmObjectGet(obj, propName) == [tag |-> "objectGet", obj |-> obj, propName |-> propName]
TmRecFunc(funcName, params, retType, body, rest) ==
    [tag |-> "recFunc", funcName |-> funcName, params |-> params,
     retType |-> retType, body |-> body, rest |-> rest]
PropertyTerm(name, tm) == [name |-> name, term |-> tm]

\* error(msg, term) of tiny-ts-parser: always throws, and keeps the term
\* whose position is reported.
Err(msg, t) == [throw |-> msg, at |-> t]

\* { ...obj }: a new plain object of the same host with the own properties
\* of obj; its prototype is Object.prototype again.
Spread(obj) == [n \in (DOMAIN obj) \ {ProtoSlot} |-> obj[n]]

\* obj[k] = v where v is a type object.  Where Object.prototype has the
\* accessor and obj no own property "__proto__", the name reaches the
\* accessor, which replaces the prototype of obj and creates no property;
\* anywhere else the assignment writes an own property.
Assign(obj, k, v) ==
    IF k = "__proto__" /\ k \in InheritedNames(obj) /\ k \notin OwnNames(obj)
    THEN MapPut(obj, ProtoSlot, v)
    ELSE MapPut(obj, k, v)

\* typeof obj[k] !== "undefined": own properties, then the properties of the
\* prototype chain.
HasProp(obj, k) ==
    \/ k \in OwnNames(obj)
    \/ k \in InheritedNames(obj)
    \/ ProtoSlot \in DOMAIN obj /\ k \in DOMAIN obj[ProtoSlot]

\* obj[k] of a property obj has: the own value; else, through a replaced
\* prototype, the prototype itself for "__proto__" and the field of the
\* type object for one of its field names; else the inherited value.
GetProp(obj, k) ==
    IF k \in OwnNames(obj) THEN obj[k]
    ELSE IF ProtoSlot \in DOMAIN obj /\ k = "__proto__" THEN obj[ProtoSlot]
    ELSE IF ProtoSlot \in DOMAIN obj /\ k \in DOMAIN obj[ProtoSlot]
         THEN IF k \in {"retType", "type"} THEN obj[ProtoSlot][k]
              ELSE NonType(obj[ProtoSlot][k])
    ELSE Inherited(k)

\* for (const { name, type } of params) newTyEnv[name] = type, from the
\* i-th parameter on: a later parameter of the same name wins.
RECURSIVE AssignParams(_, _, _)
AssignParams(obj, params, i) ==
    IF i > Len(params) THEN obj
    ELSE AssignParams(Assign(obj, params[i].name, params[i].type), params, i + 1)

\* const newTyEnv = { ...tyEnv }; for (const { name, type } of params)
\* newTyEnv[name] = type
BindParams(tyEnv, params) == AssignParams(Spread(tyEnv), params, 1)

\* recFunc: newTyEnv = { ...tyEnv }; newTyEnv[name] = type for each
\* parameter; newTyEnv[t.funcName] = funcTy
recBodyEnv(t, tyEnv) ==
    Assign(BindParams(tyEnv, t.params), t.funcName, TFunc(t.params, t.retType))

\* recFunc: newTyEnv2 = { ...tyEnv, [t.funcName]: funcTy }
recRestEnv(t, tyEnv) ==
    MapPut(Spread(tyEnv), t.funcName, TFunc(t.params, t.retType))

(***************************************************************************)
(* Type-checking driver with recursive types (ch.8-rec.ts 181-274).        *)
(***************************************************************************)
RECURSIVE typecheckRec(_, _)
RECURSIVE recArgs(_, _, _, _)
RECURSIVE recProps(_, _, _, _)
RECURSIVE recArgsRightToLeft(_, _, _, _)

\* Mutant: the arguments are checked from the last to the first.
recArgsRightToLeft(funcTy, args, i, tyEnv) ==
    IF i > Len(args) THEN Ret(funcTy.retType)
    ELSE LET k == Len(args) + 1 - i
             a == typecheckRec(args[k], tyEnv)
         IN IF ~IsRet(a) THEN a
            ELSE LET e == typeEq(funcTy.params[k].type, a.ret, EmptyObject(tyEnv))
                 IN IF ~IsRet(e) THEN e
                    ELSE IF ~e.ret THEN Err("parameter type mismatch", args[k])
                    ELSE recArgsRightToLeft(funcTy, args, i + 1, tyEnv)

\* for (let i = 0; i < t.args.length; i++): each argument is checked and
\* then compared with its parameter type by typeEq.
recArgs(funcTy, args, i, tyEnv) ==
    IF i > Len(args) THEN Ret(funcTy.retType)
    ELSE LET a == typecheckRec(args[i], tyEnv)
         IN IF ~IsRet(a) THEN a
            ELSE LET e == typeEq(funcTy.params[i].type, a.ret, EmptyObject(tyEnv))
                 IN IF ~IsRet(e) THEN e
                    ELSE IF ~e.ret THEN Err("parameter type mismatch", args[i])
                    ELSE recArgs(funcTy, args, i + 1, tyEnv)

\* t.props.map(({ name, term }) => ({ name, type: typecheck(term, tyEnv) }))
recProps(props, i, acc, tyEnv) ==
    IF i > Len(props) THEN Ret(TObject(acc))
    ELSE LET p == typecheckRec(props[i].term, tyEnv)
         IN IF ~IsRet(p) THEN p
            ELSE recProps(props, i + 1, Append(acc, Param(props[i].name, p.ret)), tyEnv)

typecheckRec(t, tyEnv) ==
    CASE t.tag \in {"true", "false"} -> Ret(TBoolean)
      [] t.tag = "if" ->
            LET c == typecheckRec(t.cond, tyEnv)
            IN IF ~IsRet(c) THEN c
               ELSE LET condTy == simplifyType(c.ret)
                    IN IF condTy = Diverges THEN Diverges
                       ELSE IF condTy.tag # "Boolean"
                            THEN Err("boolean expected", t.cond)
                       ELSE LET thn == typecheckRec(t.thn, tyEnv)
                            IN IF ~IsRet(thn) THEN thn
                               ELSE LET els == typecheckRec(t.els, tyEnv)
                                    IN IF ~IsRet(els) THEN els
                                       ELSE LET e == typeEq(thn.ret, els.ret, EmptyObject(tyEnv))
                                            IN IF ~IsRet(e) THEN e
                                               ELSE IF ~e.ret
                                                    THEN Err("then and else have different types", t)
                                               ELSE Ret(thn.ret)
      [] t.tag = "number" -> Ret(TNumber)
      [] t.tag = "add" ->
            LET l == typecheckRec(t.left, tyEnv)
            IN IF ~IsRet(l) THEN l
               ELSE LET leftTy == simplifyType(l.ret)
                    IN IF leftTy = Diverges THEN Diverges
                       ELSE IF leftTy.tag # "Number"
                            THEN Err("number expected", t.left)
                       ELSE LET r == typecheckRec(t.right, tyEnv)
                            IN IF ~IsRet(r) THEN r
                               ELSE LET rightTy == simplifyType(r.ret)
                                    IN IF rightTy = Diverges THEN Diverges
                                       ELSE IF rightTy.tag # "Number"
                                            THEN Err("number expected", t.right)
                                       ELSE Ret(TNumber)
      [] t.tag = "var" ->
            IF HasProp(tyEnv, t.name) THEN Ret(GetProp(tyEnv, t.name))
            ELSE Err("unknown variable", t)
      [] t.tag = "func" ->
            LET b == typecheckRec(t.body, BindParams(tyEnv, t.params))
            IN IF ~IsRet(b) THEN b ELSE Ret(TFunc(t.params, b.ret))
      [] t.tag = "call" ->
            LET f == typecheckRec(t.func, tyEnv)
            IN IF ~IsRet(f) THEN f
               ELSE LET funcTy == simplifyType(f.ret)
                    IN IF funcTy = Diverges THEN Diverges
                       ELSE IF funcTy.tag # "Func"
                            THEN Err("function type expected", t.func)
                       ELSE IF Len(funcTy.params) # Len(t.args)
                            THEN Err("wrong number of arguments", t)
                       ELSE recArgs(funcTy, t.args, 1, tyEnv)
      [] t.tag = "seq" ->
            LET b == typecheckRec(t.body, tyEnv)
            IN IF ~IsRet(b) THEN b ELSE typecheckRec(t.rest, tyEnv)
      [] t.tag = "const" ->
            LET ty == typecheckRec(t.init, tyEnv)
            IN IF ~IsRet(ty) THEN ty
               ELSE typecheckRec(t.rest, MapPut(Spread(tyEnv), t.name, ty.ret))
      [] t.tag = "objectNew" -> recProps(t.props, 1, <<>>, tyEnv)
      [] t.tag = "objectGet" ->
            LET o == typecheckRec(t.obj, tyEnv)
            IN IF ~IsRet(o) THEN o
               ELSE LET objectTy == simplifyType(o.ret)
                    IN IF objectTy = Diverges THEN Diverges
                       ELSE IF objectTy.tag # "Object"
                            THEN Err("object type expected", t.obj)
                       ELSE LET j == find(objectTy.props, t.propName)
                            IN IF j = 0 THEN Err("unknown property name", t)
                               ELSE Ret(objectTy.props[j].type)
      [] t.tag = "recFunc" ->
            LET b == typecheckRec(t.body, recBodyEnv(t, tyEnv))
            IN IF ~IsRet(b) THEN b
               ELSE LET e == typeEq(t.retType, b.ret, EmptyObject(tyEnv))
                    IN IF ~IsRet(e) THEN e
                       ELSE IF ~e.ret THEN Err("wrong return type", t)
                       ELSE typecheckRec(t.rest, recRestEnv(t, tyEnv))
      [] OTHER -> Throw("typecheck error")

(***************************************************************************)
(* The same driver with its environments as objects of a store: tyEnv is   *)
(* a reference, { ...tyEnv } allocates a new object with the bindings the  *)
(* referenced object has at that moment, and newTyEnv[name] = type writes  *)
(* into the object newTyEnv refers to.  A call gives its outcome and the   *)
(* store it leaves behind.                                                 *)
(***************************************************************************)
Left(out, store) == [out |-> out, store |-> store]

\* Mutant: newTyEnv is the caller's object, not a copy of it.
copyEnvAliased(store, id) == [store |-> store, id |-> id]

\* { ...tyEnv }
copyEnv(store, id) ==
    [store |-> Append(store, Spread(store[id])), id |-> Len(store) + 1]

\* for (const { name, type } of params) newTyEnv[name] = type
assignParams(store, id, params) ==
    [store EXCEPT ![id] = AssignParams(store[id], params, 1)]

\* newTyEnv[k] = v
assign(store, id, k, v) == [store EXCEPT ![id] = Assign(store[id], k, v)]

\* the [k]: v of the object literal { ...tyEnv, [k]: v }: an own property
defineProp(store, id, k, v) == [store EXCEPT ![id] = MapPut(store[id], k, v)]

RECURSIVE typecheckHeap(_, _, _)
RECURSIVE heapArgs(_, _, _, _, _)
RECURSIVE heapProps(_, _, _, _, _)

heapArgs(funcTy, args, i, id, store) ==
    IF i > Len(args) THEN Left(Ret(funcTy.retType), store)
    ELSE LET a == typecheckHeap(args[i], id, store)
         IN IF ~IsRet(a.out) THEN a
            ELSE LET e == typeEq(funcTy.params[i].type, a.out.ret, EmptyObject(store[id]))
                 IN IF ~IsRet(e) THEN Left(e, a.store)
                    ELSE IF ~e.ret
                         THEN Left(Err("parameter type mismatch", args[i]), a.store)
                    ELSE heapArgs(funcTy, args, i + 1, id, a.store)

heapProps(props, i, acc, id, store) ==
    IF i > Len(props) THEN Left(Ret(TObject(acc)), store)
    ELSE LET p == typecheckHeap(props[i].term, id, store)
         IN IF ~IsRet(p.out) THEN p
            ELSE heapProps(props, i + 1,
                           Append(acc, Param(props[i].name, p.out.ret)), id, p.store)

typecheckHeap(t, id, store) ==
    CASE t.tag \in {"true", "false"} -> Left(Ret(TBoolean), store)
      [] t.tag = "if" ->
            LET c == typecheckHeap(t.cond, id, store)
            IN IF ~IsRet(c.out) THEN c
               ELSE LET condTy == simplifyType(c.out.ret)
                    IN IF condTy = Diverges THEN Left(Diverges, c.store)
                       ELSE IF condTy.tag # "Boolean"
                            THEN Left(Err("boolean expected", t.cond), c.store)
                       ELSE LET thn == typecheckHeap(t.thn, id, c.store)
                            IN IF ~IsRet(thn.out) THEN thn
                               ELSE LET els == typecheckHeap(t.els, id, thn.store)
                                    IN IF ~IsRet(els.out) THEN els
                                       ELSE LET e == typeEq(thn.out.ret, els.out.ret, EmptyObject(store[id]))
                                            IN IF ~IsRet(e) THEN Left(e, els.store)
                                               ELSE IF ~e.ret
                                                    THEN Left(Err("then and else have different types", t),
                                                              els.store)
                                               ELSE Left(Ret(thn.out.ret), els.store)
      [] t.tag = "number" -> Left(Ret(TNumber), store)
      [] t.tag = "add" ->
            LET l == typecheckHeap(t.left, id, store)
            IN IF ~IsRet(l.out) THEN l
               ELSE LET leftTy == simplifyType(l.out.ret)
                    IN IF leftTy = Diverges THEN Left(Diverges, l.store)
                       ELSE IF leftTy.tag # "Number"
                            THEN Left(Err("number expected", t.left), l.store)
                       ELSE LET r == typecheckHeap(t.right, id, l.store)
                            IN IF ~IsRet(r.out) THEN r
                               ELSE LET rightTy == simplifyType(r.out.ret)
                                    IN IF rightTy = Diverges THEN Left(Diverges, r.store)
                                       ELSE IF rightTy.tag # "Number"
                                            THEN Left(Err("number expected", t.right), r.store)
                                       ELSE Left(Ret(TNumber), r.store)
      [] t.tag = "var" ->
            IF HasProp(store[id], t.name)
            THEN Left(Ret(GetProp(store[id], t.name)), store)
            ELSE Left(Err("unknown variable", t), store)
      [] t.tag = "func" ->
            LET new == copyEnv(store, id)
                b == typecheckHeap(t.body, new.id,
                                   assignParams(new.store, new.id, t.params))
            IN IF ~IsRet(b.out) THEN b
               ELSE Left(Ret(TFunc(t.params, b.out.ret)), b.store)
      [] t.tag = "call" ->
            LET f == typecheckHeap(t.func, id, store)
            IN IF ~IsRet(f.out) THEN f
               ELSE LET funcTy == simplifyType(f.out.ret)
                    IN IF funcTy = Diverges THEN Left(Diverges, f.store)
                       ELSE IF funcTy.tag # "Func"
                            THEN Left(Err("function type expected", t.func), f.store)
                       ELSE IF Len(funcTy.params) # Len(t.args)
                            THEN Left(Err("wrong number of arguments", t), f.store)
                       ELSE heapArgs(funcTy, t.args, 1, id, f.store)
      [] t.tag = "seq" ->
            LET b == typecheckHeap(t.body, id, store)
            IN IF ~IsRet(b.out) THEN b ELSE typecheckHeap(t.rest, id, b.store)
      [] t.tag = "const" ->
            LET ty == typecheckHeap(t.init, id, store)
            IN IF ~IsRet(ty.out) THEN ty
               ELSE LET new == copyEnv(ty.store, id)
                    IN typecheckHeap(t.rest, new.id,
                                     defineProp(new.store, new.id, t.name, ty.out.ret))
      [] t.tag = "objectNew" -> heapProps(t.props, 1, <<>>, id, store)
      [] t.tag = "objectGet" ->
            LET o == typecheckHeap(t.obj, id, store)
            IN IF ~IsRet(o.out) THEN o
               ELSE LET objectTy == simplifyType(o.out.ret)
                    IN IF objectTy = Diverges THEN Left(Diverges, o.store)
                       ELSE IF objectTy.tag # "Object"
                            THEN Left(Err("object type expected", t.obj), o.store)
                       ELSE LET j == find(objectTy.props, t.propName)
                            IN IF j = 0 THEN Left(Err("unknown property name", t), o.store)
                               ELSE Left(Ret(objectTy.props[j].type), o.store)
      [] t.tag = "recFunc" ->
            LET funcTy == TFunc(t.params, t.retType)
                new == copyEnv(store, id)
                b == typecheckHeap(t.body, new.id,
                                   assign(assignParams(new.store, new.id, t.params),
                                          new.id, t.funcName, funcTy))
            IN IF ~IsRet(b.out) THEN b
               ELSE LET e == typeEq(t.retType, b.out.ret, EmptyObject(store[id]))
                    IN IF ~IsRet(e) THEN Left(e, b.store)
                       ELSE IF ~e.ret THEN Left(Err("wrong return type", t), b.store)
                       ELSE LET new2 == copyEnv(b.store, id)
                            IN typecheckHeap(t.rest, new2.id,
                                             defineProp(new2.store, new2.id,
                                                        t.funcName, funcTy))
      [] OTHER -> Left(Throw("typecheck error"), store)

(***************************************************************************)
(* Type-checking driver with subtyping (part_001 292-373): no conditional, *)
(* no recursive types, arguments compared with subType.                    *)
(***************************************************************************)
RECURSIVE typecheckSub(_, _)
RECURSIVE subArgs(_, _, _, _)
RECURSIVE subObjProps(_, _, _, _)

\* for (let i = 0; i < t.args.length; i++): subType(argTy, param type)
subArgs(funcTy, args, i, tyEnv) ==
    IF i > Len(args) THEN Ret(funcTy.retType)
    ELSE LET a == typecheckSub(args[i], tyEnv)
         IN IF ~IsRet(a) THEN a
            ELSE LET e == subType(a.ret, funcTy.params[i].type)
                 IN IF ~IsRet(e) THEN e
                    ELSE IF ~e.ret THEN Err("parameter type mismatch", args[i])
                    ELSE subArgs(funcTy, args, i + 1, tyEnv)

subObjProps(props, i, acc, tyEnv) ==
    IF i > Len(props) THEN Ret(TObject(acc))
    ELSE LET p == typecheckSub(props[i].term, tyEnv)
         IN IF ~IsRet(p) THEN p
            ELSE subObjProps(props, i + 1, Append(acc, Param(props[i].name, p.ret)), tyEnv)

typecheckSub(t, tyEnv) ==
    CASE t.tag \in {"true", "false"} -> Ret(TBoolean)
      [] t.tag = "number" -> Ret(TNumber)
      [] t.tag = "add" ->
            LET l == typecheckSub(t.left, tyEnv)
            IN IF ~IsRet(l) THEN l
               ELSE IF l.ret.tag # "Number" THEN Err("number expected", t.left)
               ELSE LET r == typecheckSub(t.right, tyEnv)
                    IN IF ~IsRet(r) THEN r
                       ELSE IF r.ret.tag # "Number"
                            THEN Err("number expected", t.right)
                       ELSE Ret(TNumber)
      [] t.tag = "var" ->
            IF HasProp(tyEnv, t.name) THEN Ret(GetProp(tyEnv, t.name))
            ELSE Err("unknown variable", t)
      [] t.tag = "func" ->
            LET b == typecheckSub(t.body, BindParams(tyEnv, t.params))
            IN IF ~IsRet(b) THEN b ELSE Ret(TFunc(t.params, b.ret))
      [] t.tag = "call" ->
            LET f == typecheckSub(t.func, tyEnv)
            IN IF ~IsRet(f) THEN f
               ELSE IF f.ret.tag # "Func"
                    THEN Err("function type expected", t.func)
               ELSE IF Len(f.ret.params) # Len(t.args)
                    THEN Err("wrong number of arguments", t)
               ELSE subArgs(f.ret, t.args, 1, tyEnv)
      [] t.tag = "seq" ->
            LET b == typecheckSub(t.body, tyEnv)
            IN IF ~IsRet(b) THEN b ELSE typecheckSub(t.rest, tyEnv)
      [] t.tag = "const" ->
            LET ty == typecheckSub(t.init, tyEnv)
            IN IF ~IsRet(ty) THEN ty
               ELSE typecheckSub(t.rest, MapPut(Spread(tyEnv), t.name, ty.ret))
      [] t.tag = "objectNew" -> subObjProps(t.props, 1, <<>>, tyEnv)
      [] t.tag = "objectGet" ->
            LET o == typecheckSub(t.obj, tyEnv)
            IN IF ~IsRet(o) THEN o
               ELSE IF o.ret.tag # "Object"
                    THEN Err("object type expected", t.obj)
               ELSE LET j == find(o.ret.props, t.propName)
                    IN IF j = 0 THEN Err("unknown property name", t)
                       ELSE Ret(o.ret.props[j].type)
      [] t.tag = "recFunc" ->
            LET funcTy == TFunc(t.params, t.retType)
                newTyEnv == Assign(BindParams(tyEnv, t.params), t.funcName, funcTy)
                b == typecheckSub(t.body, newTyEnv)
            IN IF ~IsRet(b) THEN b
               ELSE LET e == typeEqStruct(t.retType, b.ret)
                    IN IF ~IsRet(e) THEN e
                       ELSE IF ~e.ret THEN Err("wrong return type", t)
                       ELSE typecheckSub(t.rest,
                                         MapPut(Spread(tyEnv), t.funcName, funcTy))
      [] OTHER -> Throw("typecheck error")

(***************************************************************************)
(* Bounded input sets.                                                     *)
(***************************************************************************)
\* The longest parameter list of a generated Func type.
MaxParams == 1
\* How deep the reference comparison of two unfoldings goes.
MaxUnfold == 6

ParamNames == <<"x", "y", "z">>
FieldNames == <<"foo", "bar">>
Base == {TBoolean, TNumber}
Leaves(v) == Base \cup {TTypeVar(n) : n \in v}

\* Parameter lists of at most n parameters with types in S.
ParamLists(S, n) ==
    UNION {{[i \in 1..k |-> Param(ParamNames[i], q[i])] : q \in [1..k -> S]} :
           k \in 0..n}

\* Field lists with unique names: every ordered choice of field names.
FieldLists(S) ==
    UNION {{[i \in 1..Len(ns) |-> Param(ns[i], q[i])] : q \in [1..Len(ns) -> S]} :
           ns \in {<<>>, <<"foo">>, <<"bar">>, <<"foo", "bar">>, <<"bar", "foo">>}}

\* Func and Object types whose components are in S.
Shapes(S) ==
    {TFunc(ps, r) : ps \in ParamLists(S, MaxParams), r \in S}
    \cup {TObject(fs) : fs \in FieldLists(S)}

\* A type of S as the return type, the parameter or the field of a new type.
Wraps(S, L) ==
    {TFunc(<<>>, t) : t \in S}
    \cup {TFunc(<<Param("x", t)>>, l) : t \in S, l \in L}
    \cup {TObject(<<Param("foo", t)>>) : t \in S}

\* The types of S and every non-leaf type of S wrapped once more.
Nested(S, L) == S \cup Wraps(S \ L, L)

\* Types built from Boolean, Number, Func and Object.
PlainTypes == Nested(Base \cup Shapes(Base), Base)

\* Bodies of a Rec that binds v.
Bodies(v) == Nested(Leaves({v}) \cup Shapes(Leaves({v})), Leaves({v}))

RECURSIVE FreeVars(_)
FreeVars(ty) ==
    CASE ty.tag = "TypeVar" -> {ty.name}
      [] ty.tag = "Rec" -> FreeVars(ty.type) \ {ty.name}
      [] ty.tag = "Func" ->
            FreeVars(ty.retType)
            \cup UNION {FreeVars(ty.params[i].type) : i \in 1..Len(ty.params)}
      [] ty.tag = "Object" ->
            UNION {FreeVars(ty.props[i].type) : i \in 1..Len(ty.props)}
      [] OTHER -> {}

\* Well-formed: every TypeVar names an enclosing Rec binder.
WellFormed(ty) == FreeVars(ty) = {}

\* Rec types over one binder, the same under another binder name, a Rec
\* directly inside a Rec, and a Rec that rebinds the name of an outer one.
RecTypes ==
    {TRec("X", b) : b \in Bodies("X")}
    \cup {TRec("Y", b) : b \in Leaves({"Y"}) \cup Shapes(Leaves({"Y"}))}
    \cup {TRec("X", TRec("Y", b)) :
            b \in Leaves({"X", "Y"})
                  \cup {TFunc(ps, r) : ps \in ParamLists(Leaves({"X", "Y"}), 1),
                                       r \in {TTypeVar("X"), TTypeVar("Y")}}}
    \cup {TRec("X", TFunc(<<>>, TRec(n, TFunc(<<>>, TTypeVar(m))))) :
            n \in {"X", "Y"}, m \in {"X", "Y"}}

\* The unfoldings of the Rec types that have one.
Unfoldings(S) == {simplifyType(r) : r \in {q \in S : simplifyType(q) # Diverges}}

\* Every Rec inside ty has an unfolding: simplifyType returns on it.
RECURSIVE Contractive(_)
Contractive(ty) ==
    CASE ty.tag = "Rec" -> simplifyType(ty) # Diverges /\ Contractive(ty.type)
      [] ty.tag = "Func" ->
            /\ Contractive(ty.retType)
            /\ \A i \in 1..Len(ty.params) : Contractive(ty.params[i].type)
      [] ty.tag = "Object" ->
            \A i \in 1..Len(ty.props) : Contractive(ty.props[i].type)
      [] OTHER -> TRUE

\* The well-formed types the equality engine is applied to.
EqTypes ==
    {t \in RecTypes \cup Unfoldings(RecTypes) \cup Base \cup Shapes(Base) :
        WellFormed(t)}

(***************************************************************************)
(* The equality engine applied to every pair of well-formed types, in both *)
(* argument orders.                                                        *)
(***************************************************************************)
NoOut == [n \in {} |-> Ret(FALSE)]
Put(f, k, v) == [n \in (DOMAIN f) \cup {k} |-> IF n = k THEN v ELSE f[n]]

InitEq ==
    /\ pc = "start"
    /\ ty1 \in {t \in EqTypes : Contractive(t)}
    /\ ty2 \in {t \in EqTypes : Contractive(t)}
    /\ ty3 = TNumber
    /\ term = TmTrue
    /\ env = EmptyMap
    /\ res = NoOut

\* simplifyType(ty1)
SimplifyCall ==
    /\ pc = "start"
    /\ res' = Put(res, "simp1", simplifyType(ty1))
    /\ pc' = "simplified"
    /\ UNCHANGED <<ty1, ty2, ty3, term, env>>

\* typeEq(ty1, ty2)
TypeEqCall ==
    /\ pc = "simplified"
    /\ res' = Put(res, "eq12", typeEq(ty1, ty2, EmptyObject(env)))
    /\ pc' = "called"
    /\ UNCHANGED <<ty1, ty2, ty3, term, env>>

\* typeEq(ty2, ty1)
TypeEqSwapped ==
    /\ pc = "called"
    /\ res' = Put(res, "eq21", typeEq(ty2, ty1, EmptyObject(env)))
    /\ pc' = "done"
    /\ UNCHANGED <<ty1, ty2, ty3, term, env>>

NextEq == SimplifyCall \/ TypeEqCall \/ TypeEqSwapped

SpecEq == InitEq /\ [][NextEq]_vars

\* The same calls on every well-formed type, the Rec types without an
\* unfolding (Rec X. X) included.
InitTerm ==
    /\ pc = "start"
    /\ ty1 \in EqTypes
    /\ ty2 \in EqTypes
    /\ ty3 = TNumber
    /\ term = TmTrue
    /\ env = EmptyMap
    /\ res = NoOut

SpecTerm == InitTerm /\ [][NextEq]_vars

(***************************************************************************)
(* The drivers applied to calls: a function literal with one parameter of  *)
(* a declared type, applied to a term of each type.                        *)
(***************************************************************************)
\* A closed term whose type is the plain type ty.
RECURSIVE TermOf(_)
TermOf(ty) ==
    CASE ty.tag = "Boolean" -> TmTrue
      [] ty.tag = "Number" -> TmNumber(1)
      [] ty.tag = "Func" -> TmFunc(ty.params, TermOf(ty.retType))
      [] ty.tag = "Object" ->
            TmObjectNew([i \in 1..Len(ty.props) |->
                            PropertyTerm(ty.props[i].name, TermOf(ty.props[i].type))])

\* ((x: paramTy) => x)(arg)
CallOf(paramTy, arg) == TmCall(TmFunc(<<Param("x", paramTy)>>, TmVar("x")), <<arg>>)

CallTerms == {CallOf(p, TermOf(a)) : p \in PlainTypes, a \in PlainTypes}

\* const f = (x: { foo: number }) => x.foo; const x = { foo: 1, bar: true }; f(x)
WidthExample ==
    TmConst("f",
            TmFunc(<<Param("x", TObject(<<Param("foo", TNumber)>>))>>,
                   TmObjectGet(TmVar("x"), "foo")),
            TmConst("x",
                    TmObjectNew(<<PropertyTerm("foo", TmNumber(1)),
                                  PropertyTerm("bar", TmTrue)>>),
                    TmCall(TmVar("f"), <<TmVar("x")>>)))

CheckTerms == CallTerms \cup {WidthExample}

InitCheck ==
    /\ pc = "start"
    /\ ty1 = TNumber
    /\ ty2 = TNumber
    /\ ty3 = TNumber
    /\ term \in CheckTerms
    /\ env = EmptyMap
    /\ res = NoOut

\* typecheck(term, env) of the driver with subtyping
TypecheckSubCall ==
    /\ pc = "start"
    /\ res' = Put(res, "sub", typecheckSub(term, env))
    /\ pc' = "checkedSub"
    /\ UNCHANGED <<ty1, ty2, ty3, term, env>>

\* typecheck(term, env) of the driver with recursive types
TypecheckRecCall ==
    /\ pc = "checkedSub"
    /\ res' = Put(res, "rec", typecheckRec(term, env))
    /\ pc' = "done"
    /\ UNCHANGED <<ty1, ty2, ty3, term, env>>

NextCheck == TypecheckSubCall \/ TypecheckRecCall

SpecCheck == InitCheck /\ [][NextCheck]_vars

(***************************************************************************)
(* The subtyping engine applied to the types built from Boolean, Number,   *)
(* Func and Object: to a pair, and along a chain of three.                 *)
(***************************************************************************)
InitSub ==
    /\ pc = "start"
    /\ ty1 \in PlainTypes
    /\ ty2 \in PlainTypes
    /\ ty3 \in PlainTypes
    /\ term = TmTrue
    /\ env = EmptyMap
    /\ res = NoOut

\* subType(ty1, ty2)
SubTypeCall ==
    /\ pc = "start"
    /\ res' = Put(res, "sub12", subType(ty1, ty2))
    /\ pc' = "called"
    /\ UNCHANGED <<ty1, ty2, ty3, term, env>>

\* subType(ty2, ty3)
SubTypeNext ==
    /\ pc = "called"
    /\ res' = Put(res, "sub23", subType(ty2, ty3))
    /\ pc' = "chained"
    /\ UNCHANGED <<ty1, ty2, ty3, term, env>>

\* subType(ty1, ty3)
SubTypeAcross ==
    /\ pc = "chained"
    /\ res' = Put(res, "sub13", subType(ty1, ty3))
    /\ pc' = "done"
    /\ UNCHANGED <<ty1, ty2, ty3, term, env>>

NextSub == SubTypeCall \/ SubTypeNext \/ SubTypeAcross

SpecSub == InitSub /\ [][NextSub]_vars

\* The same calls on one well-formed type of the recursive-type data model,
\* compared with itself.
InitSubRec ==
    /\ pc = "start"
    /\ ty1 \in {t \in EqTypes : Contractive(t)}
    /\ ty2 = ty1
    /\ ty3 = ty1
    /\ term = TmTrue
    /\ env = EmptyMap
    /\ res = NoOut

SpecSubRec == InitSubRec /\ [][NextSub]_vars

(***************************************************************************)
(* The drivers applied to recursive function definitions:                  *)
(* function f(x: P): R { return body }; f                                  *)
(***************************************************************************)
\* Rec X. {foo: () => X}
SelfRecord == TRec("X", TObject(<<Param("foo", TFunc(<<>>, TTypeVar("X")))>>))

\* f(x)
SelfCall == TmCall(TmVar("f"), <<TmVar("x")>>)

\* type H = (x: () => number) => H
SelfFunc == TRec("X", TFunc(<<Param("x", TFunc(<<>>, TNumber))>>, TTypeVar("X")))

\* Rec X. (x: boolean) => boolean
RecPredicate == TRec("X", TFunc(<<Param("x", TBoolean)>>, TBoolean))

\* The declared parameter types: base types, a function type and a Rec.
RecFuncParamTypes == Base \cup {TFunc(<<>>, TNumber), RecPredicate}

RecFuncRetTypes == PlainTypes \cup {SelfRecord, unfoldOnce(SelfRecord), SelfFunc}

\* The bodies: a closed term of each plain type, the function itself, a call
\* to itself, and a record whose field returns a call to itself.
RecFuncBodies ==
    {TermOf(ty) : ty \in PlainTypes}
        \cup {TmVar("f"), TmVar("x"), SelfCall,
              TmObjectNew(<<PropertyTerm("foo", TmFunc(<<>>, SelfCall))>>)}

RecFuncOf(paramTy, retType, body) ==
    TmRecFunc("f", <<Param("x", paramTy)>>, retType, body, TmVar("f"))

RecFuncTerms ==
    {RecFuncOf(p, r, b) :
        p \in RecFuncParamTypes, r \in RecFuncRetTypes, b \in RecFuncBodies}

InitRecFunc ==
    /\ pc = "start"
    /\ ty1 = TNumber
    /\ ty2 = TNumber
    /\ ty3 = TNumber
    /\ term \in RecFuncTerms
    /\ env = EmptyMap
    /\ res = NoOut

SpecRecFunc == InitRecFunc /\ [][NextCheck]_vars

(***************************************************************************)
(* The drivers applied to conditionals, additions and calls whose          *)
(* subterms succeed, fail or never return.                                 *)
(***************************************************************************)
\* (x: number) => x
IdFunc == TmFunc(<<Param("x", TNumber)>>, TmVar("x"))
\* (x: number, y: number) => x + y
AddFunc ==
    TmFunc(<<Param("x", TNumber), Param("y", TNumber)>>,
           TmAdd(TmVar("x"), TmVar("y")))
\* (d: Rec X. X) => d + 1: checking the body unfolds the type of d.
LoopTerm ==
    TmFunc(<<Param("d", TRec("X", TTypeVar("X")))>>,
           TmAdd(TmVar("d"), TmNumber(1)))

OrderAtoms ==
    {TmTrue, TmNumber(1), TmVar("a"), TmVar("b"), IdFunc, AddFunc, LoopTerm}

OrderSubterms ==
    OrderAtoms \cup
        {TmAdd(l, r) : l \in {TmNumber(1), TmTrue, TmVar("a"), LoopTerm},
                       r \in {TmNumber(1), TmTrue, TmVar("b"), LoopTerm}}

OrderArgs ==
    {<<>>} \cup {<<a>> : a \in OrderSubterms}
           \cup {<<a, b>> : a \in OrderSubterms, b \in OrderSubterms}

OrderTerms ==
    {TmIf(c, t, e) : c \in OrderSubterms, t \in OrderSubterms, e \in OrderSubterms}
        \cup {TmAdd(l, r) : l \in OrderSubterms, r \in OrderSubterms}
        \cup {TmCall(f, args) : f \in OrderSubterms, args \in OrderArgs}

InitOrder ==
    /\ pc = "start"
    /\ ty1 = TNumber
    /\ ty2 = TNumber
    /\ ty3 = TNumber
    /\ term \in OrderTerms
    /\ env = EmptyMap
    /\ res = NoOut

SpecOrder == InitOrder /\ [][NextCheck]_vars

(***************************************************************************)
(* The drivers applied to conditionals: literals, and variables of every   *)
(* type in the condition and the branches: c ? p : q                       *)
(***************************************************************************)
\* The types of the condition: Boolean and Rec types that unfold to it,
\* types that are not Boolean, and Rec X. X, which has no unfolding.
IfCondTypes ==
    {TBoolean, TNumber, TFunc(<<>>, TBoolean), SelfRecord,
     TRec("X", TBoolean), TRec("X", TNumber), TRec("X", TRec("Y", TBoolean)),
     TRec("X", TTypeVar("X"))}

\* The types of the branches: the plain types, and Rec types whose Func
\* types have parameters and have none.
IfBranchTypes ==
    PlainTypes \cup {SelfRecord, unfoldOnce(SelfRecord),
                     TRec("X", TBoolean), TRec("Y", TNumber),
                     RecPredicate, SelfFunc, unfoldOnce(SelfFunc)}

IfOfVars == TmIf(TmVar("c"), TmVar("p"), TmVar("q"))

IfEnv(c, p, q) == MapPut(MapPut(MapPut(EmptyMap, "c", c), "p", p), "q", q)

IfLeaves == {TmTrue, TmFalse, TmNumber(1), TmNumber(2), TmNumber(3)}

IfLiterals == {TmIf(c, t, e) : c \in IfLeaves, t \in IfLeaves, e \in IfLeaves}

InitIf ==
    /\ pc = "start"
    /\ ty1 = TNumber
    /\ ty2 = TNumber
    /\ ty3 = TNumber
    /\ \/ /\ term \in IfLiterals
          /\ env = EmptyMap
       \/ /\ term = IfOfVars
          /\ env \in {IfEnv(c, p, q) : c \in IfCondTypes,
                                       p \in IfBranchTypes, q \in IfBranchTypes}
    /\ res = NoOut

SpecIf == InitIf /\ [][NextCheck]_vars

(***************************************************************************)
(* The drivers applied to the stream program:                              *)
(*   type NumStream = { num: number; rest: () => NumStream };              *)
(*   function numbers(n: number): NumStream {                              *)
(*     return { num: n, rest: () => numbers(n + 1) }; }                    *)
(* followed by numbers(arg), k times (.rest)(), and a projection.          *)
(***************************************************************************)
\* How many times (.rest)() is applied.
MaxChain == 4

NumStream ==
    TRec("NumStream",
         TObject(<<Param("num", TNumber),
                   Param("rest", TFunc(<<>>, TTypeVar("NumStream")))>>))

NumbersBody ==
    TmObjectNew(
        <<PropertyTerm("num", TmVar("n")),
          PropertyTerm("rest",
              TmFunc(<<>>, TmCall(TmVar("numbers"),
                                  <<TmAdd(TmVar("n"), TmNumber(1))>>)))>>)

NumbersDef(rest) ==
    TmRecFunc("numbers", <<Param("n", TNumber)>>, NumStream, NumbersBody, rest)

\* (stream.rest)()
RestOf(stream) == TmCall(TmObjectGet(stream, "rest"), <<>>)

RECURSIVE RestChain(_, _)
RestChain(arg, k) ==
    IF k = 0 THEN TmCall(TmVar("numbers"), <<arg>>)
    ELSE RestOf(RestChain(arg, k - 1))

\* proj = "" stands for no projection.
Projected(stream, proj) == IF proj = "" THEN stream ELSE TmObjectGet(stream, proj)

StreamProgram(arg, k, proj) == NumbersDef(Projected(RestChain(arg, k), proj))

\* const ns1 = numbers(1); const ns2 = (ns1.rest)(); const ns3 = (ns2.rest)(); ns3
StreamTest ==
    NumbersDef(
        TmConst("ns1", TmCall(TmVar("numbers"), <<TmNumber(1)>>),
            TmConst("ns2", RestOf(TmVar("ns1")),
                TmConst("ns3", RestOf(TmVar("ns2")), TmVar("ns3")))))

StreamArgs == {TmNumber(1), TmNumber(2), TmAdd(TmNumber(1), TmNumber(2)), TmTrue}
StreamProjections == {"", "num", "rest", "foo"}

StreamTerms ==
    {StreamProgram(a, k, p) : a \in StreamArgs, k \in 0..MaxChain,
                              p \in StreamProjections}
        \cup {StreamTest}

InitStream ==
    /\ pc = "start"
    /\ ty1 = TNumber
    /\ ty2 = TNumber
    /\ ty3 = TNumber
    /\ term \in StreamTerms
    /\ env = EmptyMap
    /\ res = NoOut

SpecStream == InitStream /\ [][NextCheck]_vars

(***************************************************************************)
(* The driver applied to two sibling subterms under one environment        *)
(* object: terms that bind names, and terms that refer to them.            *)
(***************************************************************************)
FrameBinders ==
    {IdFunc,
     TmFunc(<<Param("x", TNumber)>>, TmFunc(<<Param("y", TBoolean)>>, TmVar("x"))),
     TmConst("x", TmNumber(1), TmVar("x")),
     TmCall(IdFunc, <<TmNumber(1)>>),
     TmRecFunc("f", <<Param("x", TNumber)>>, TNumber, SelfCall, TmVar("f")),
     TmRecFunc("f", <<Param("y", TNumber)>>, TNumber, TmVar("y"),
               TmCall(TmVar("f"), <<TmNumber(1)>>)),
     TmFunc(<<Param("__proto__", TNumber)>>, TmVar("tag")),
     TmRecFunc("__proto__", <<Param("x", TNumber)>>, TNumber,
               TmCall(TmVar("__proto__"), <<TmVar("x")>>), TmVar("__proto__"))}

FrameObservers ==
    {TmVar("x"), TmVar("y"), TmVar("f"), TmVar("tag"), TmVar("__proto__"),
     TmNumber(1)}

FrameSubterms == FrameBinders \cup FrameObservers

FrameTerms ==
    FrameSubterms
      \cup {TmSeq(a, b) : a \in FrameSubterms, b \in FrameSubterms}
      \cup {TmAdd(a, b) : a \in FrameSubterms, b \in FrameSubterms}
      \cup {TmObjectNew(<<PropertyTerm("foo", a), PropertyTerm("bar", b)>>) :
                a \in FrameSubterms, b \in FrameSubterms}
      \cup {TmCall(a, <<b>>) : a \in FrameSubterms, b \in FrameSubterms}
      \cup {TmIf(TmTrue, a, b) : a \in FrameSubterms, b \in FrameSubterms}

\* The environments, on a host with the accessor __proto__ and on one
\* without.
FrameEnvs ==
    LET bound == {EmptyMap,
                  MapPut(EmptyMap, "x", TBoolean),
                  MapPut(EmptyMap, "y", TNumber),
                  MapPut(MapPut(EmptyMap, "x", TBoolean), "f", TNumber)}
    IN bound \cup {WithoutAccessor(e) : e \in bound}

InitFrame ==
    /\ pc = "start"
    /\ ty1 = TNumber
    /\ ty2 = TNumber
    /\ ty3 = TNumber
    /\ term \in FrameTerms
    /\ env \in FrameEnvs
    /\ res = NoOut

\* typecheck(term, env) with env the caller's object: the call leaves its
\* outcome, and env is what the object holds afterwards.
TypecheckFrameCall ==
    /\ pc = "start"
    /\ LET r == typecheckHeap(term, 1, <<env>>)
       IN /\ res' = Put(res, "frame", r.out)
          /\ env' = r.store[1]
    /\ pc' = "checkedSub"
    /\ UNCHANGED <<ty1, ty2, ty3, term>>

NextFrame == TypecheckFrameCall \/ TypecheckRecCall

SpecFrame == InitFrame /\ [][NextFrame]_vars

(***************************************************************************)
(* The drivers applied to a variable reference under at most two binders   *)
(* (func parameter, const, recFunc body, recFunc rest), from environments  *)
(* that bind some of the names.  toString is a name every plain object     *)
(* inherits.                                                               *)
(***************************************************************************)
ScopeVarNames == {"x", "y", "f", "z", "toString", "__proto__", "tag"}

\* function f(p: number): number { return 1 }; inner
RecRestOf(p, inner) ==
    TmRecFunc("f", <<Param(p, TNumber)>>, TNumber, TmNumber(1), inner)

\* function f(p: number): number { return inner }; 1
RecBodyOf(p, inner) ==
    TmRecFunc("f", <<Param(p, TNumber)>>, TNumber, inner, TmNumber(1))

ScopeWraps(S) ==
    {TmFunc(<<Param(p, TNumber)>>, t) :
        p \in {"x", "y", "toString", "__proto__"}, t \in S}
      \cup {TmFunc(<<Param("x", TBoolean)>>, t) : t \in S}
      \cup {TmConst("x", TmNumber(1), t) : t \in S}
      \cup {TmConst("y", TmTrue, t) : t \in S}
      \cup {RecRestOf(p, t) : p \in {"x", "toString"}, t \in S}
      \cup {RecBodyOf("x", t) : t \in S}

ScopeVars == {TmVar(n) : n \in ScopeVarNames}

ScopeTerms == ScopeVars \cup ScopeWraps(ScopeVars) \cup ScopeWraps(ScopeWraps(ScopeVars))

\* The environments, on a host with the accessor __proto__ and on one
\* without.
ScopeEnvs ==
    LET bound == {EmptyMap,
                  MapPut(EmptyMap, "x", TBoolean),
                  MapPut(EmptyMap, "z", TObject(<<>>)),
                  MapPut(MapPut(EmptyMap, "x", TBoolean), "f", TNumber)}
    IN bound \cup {WithoutAccessor(e) : e \in bound}

InitScope ==
    /\ pc = "start"
    /\ ty1 = TNumber
    /\ ty2 = TNumber
    /\ ty3 = TNumber
    /\ term \in ScopeTerms
    /\ env \in ScopeEnvs
    /\ res = NoOut

SpecScope == InitScope /\ [][NextCheck]_vars

(***************************************************************************)
(* The renaming-aware comparison called as typeEqSub calls it: two types   *)
(* and an empty renaming map.                                              *)
(***************************************************************************)
InitNaive ==
    /\ pc = "start"
    /\ ty1 \in EqTypes
    /\ ty2 \in EqTypes
    /\ ty3 = TNumber
    /\ term = TmTrue
    /\ env = EmptyMap
    /\ res = NoOut

\* typeEqNaive(ty1, ty2, {})
NaiveCall ==
    /\ pc = "start"
    /\ res' = Put(res, "naive12", typeEqNaive(ty1, ty2, EmptyObject(env)))
    /\ pc' = "called"
    /\ UNCHANGED <<ty1, ty2, ty3, term, env>>

\* typeEqNaive(ty2, ty1, {})
NaiveSwapped ==
    /\ pc = "called"
    /\ res' = Put(res, "naive21", typeEqNaive(ty2, ty1, EmptyObject(env)))
    /\ pc' = "done"
    /\ UNCHANGED <<ty1, ty2, ty3, term, env>>

NextNaive == NaiveCall \/ NaiveSwapped

SpecNaive == InitNaive /\ [][NextNaive]_vars

(***************************************************************************)
(* The unfolder applied to Rec types whose bodies hold variables of two    *)
(* names and nested Rec types that rebind either name                      *)
(* (ch.8-rec.ts 134-176).                                                  *)
(***************************************************************************)
\* What a nested Rec of a body binds a name over.
ExpandRecBodies ==
    Leaves({"X", "Y"})
    \cup {TFunc(<<Param("x", v)>>, w) : v, w \in {TTypeVar("X"), TTypeVar("Y")}}

\* The components of a body: leaves and nested Rec types.
ExpandParts ==
    Leaves({"X", "Y"})
    \cup {TRec(n, b) : n \in {"X", "Y"}, b \in ExpandRecBodies}

\* The Rec types handed to the unfolder.
ExpandTypes ==
    {TRec(n, b) : n \in {"X", "Y"}, b \in ExpandParts \cup Shapes(ExpandParts)}

\* The replacement types: closed ones and ones with a variable of their own.
ExpandReps ==
    {TNumber, TTypeVar("X"), TTypeVar("Y"),
     TObject(<<Param("foo", TTypeVar("X"))>>),
     TRec("X", TFunc(<<>>, TTypeVar("X")))}

InitExpand ==
    /\ pc = "start"
    /\ ty1 \in ExpandTypes
    /\ ty2 \in ExpandReps
    /\ ty3 = TNumber
    /\ term = TmTrue
    /\ env = EmptyMap
    /\ res = NoOut

\* expandType(ty1.type, ty1.name, ty2)
ExpandCall ==
    /\ pc = "start"
    /\ res' = Put(res, "expand", Ret(expandType(ty1.type, ty1.name, ty2)))
    /\ pc' = "called"
    /\ UNCHANGED <<ty1, ty2, ty3, term, env>>

\* expandType(ty1.type, ty1.name, ty1): the unfolding simplifyType makes
UnfoldCall ==
    /\ pc = "called"
    /\ res' = Put(res, "unfold", Ret(unfoldOnce(ty1)))
    /\ pc' = "done"
    /\ UNCHANGED <<ty1, ty2, ty3, term, env>>

NextExpand == ExpandCall \/ UnfoldCall

SpecExpand == InitExpand /\ [][NextExpand]_vars

(***************************************************************************)
(* subType with a self-referential record type as one of its arguments     *)
(* (part_001 257-286).                                                     *)
(***************************************************************************)
\* Rec N. {f: () => N} under two binder names and two field names.
SelfRecords ==
    {TRec(n, TObject(<<Param(f, TFunc(<<>>, TTypeVar(n)))>>)) :
        n \in {"X", "Y"}, f \in {"foo", "bar"}}

\* The self-referential records, their unfoldings and a few plain types.
SubSelfTypes ==
    SelfRecords \cup {unfoldOnce(r) : r \in SelfRecords} \cup Base
    \cup {TObject(<<>>), TFunc(<<>>, TNumber)}

InitSubSelf ==
    /\ pc = "start"
    /\ ty1 \in SubSelfTypes
    /\ ty2 \in SubSelfTypes
    /\ ty1 \in SelfRecords \/ ty2 \in SelfRecords
    /\ ty3 = ty1
    /\ term = TmTrue
    /\ env = EmptyMap
    /\ res = NoOut

SpecSubSelf == InitSubSelf /\ [][NextSub]_vars

(***************************************************************************)
(* The equality engine of the recursive-type driver and the structural     *)
(* typeEq of the earlier drivers on the same pair of plain types           *)
(* (ch.8-rec.ts 83-131, part_001 34-65).                                   *)
(***************************************************************************)
InitAgree ==
    /\ pc = "start"
    /\ ty1 \in PlainTypes
    /\ ty2 \in PlainTypes
    /\ ty3 = TNumber
    /\ term = TmTrue
    /\ env = EmptyMap
    /\ res = NoOut

\* typeEq(ty1, ty2) of the recursive-type driver
AgreeRecCall ==
    /\ pc = "start"
    /\ res' = Put(res, "eq12", typeEq(ty1, ty2, EmptyObject(env)))
    /\ pc' = "called"
    /\ UNCHANGED <<ty1, ty2, ty3, term, env>>

\* typeEq(ty1, ty2) of the drivers without recursive types
AgreeStructCall ==
    /\ pc = "called"
    /\ res' = Put(res, "struct12", typeEqStruct(ty1, ty2))
    /\ pc' = "done"
    /\ UNCHANGED <<ty1, ty2, ty3, term, env>>

NextAgree == AgreeRecCall \/ AgreeStructCall

SpecAgree == InitAgree /\ [][NextAgree]_vars

(***************************************************************************)
(* typeEqNaive on types that hold TypeVars no Rec binds: what the          *)
(* comparison meets when the renaming map has no entry for a name          *)
(* (ch.8-rec.ts 65-76).                                                    *)
(***************************************************************************)
\* Leaves, one-level Func and Object types over them, and Rec types over
\* those, with variables of two names, and a variable that has the name of
\* the accessor of Object.prototype.
OpenTypes ==
    Leaves({"X", "Y"}) \cup Shapes(Leaves({"X"}))
    \cup {TRec(n, b) : n \in {"X", "Y"},
                       b \in Leaves({"X", "Y"})
                             \cup {TFunc(<<>>, v) : v \in Leaves({"X", "Y"})}}
    \cup {TTypeVar("__proto__"), TRec("X", TTypeVar("__proto__"))}

InitNaiveOpen ==
    /\ pc = "start"
    /\ ty1 \in OpenTypes
    /\ ty2 \in OpenTypes
    /\ ty3 = TNumber
    /\ term = TmTrue
    /\ env \in {EmptyMap, WithoutAccessor(EmptyMap)}
    /\ res = NoOut

SpecNaiveOpen == InitNaiveOpen /\ [][NextNaive]_vars

(***************************************************************************)
(* The default specification: the subtyping engine.                        *)
(***************************************************************************)
Init == InitSub
Next == NextSub
Spec == SpecSub

(***************************************************************************)
(* Reference notions the claims are stated with.                           *)
(***************************************************************************)
Called(k) == k \in DOMAIN res

FieldNameSet(props) == {props[i].name : i \in 1..Len(props)}

\* The unfolding of a type at its root; a Rec whose unfolding never reaches
\* a Func, an Object or a base type has none.
Unfolded(t) ==
    LET s == simplifyType(t) IN IF s = Diverges THEN [tag |-> "None"] ELSE s

\* The unfoldings of a and b are structurally identical down to depth k:
\* same tags, same parameter counts, same field-name sets.
RECURSIVE SameUnfolding(_, _, _)
SameUnfolding(a, b, k) ==
    IF k = 0 THEN TRUE
    ELSE LET sa == Unfolded(a)
             sb == Unfolded(b)
         IN /\ sa.tag = sb.tag
            /\ sa.tag = "Func" =>
                 /\ Len(sa.params) = Len(sb.params)
                 /\ \A i \in 1..Len(sa.params) :
                        SameUnfolding(sa.params[i].type, sb.params[i].type, k - 1)
                 /\ SameUnfolding(sa.retType, sb.retType, k - 1)
            /\ sa.tag = "Object" =>
                 /\ FieldNameSet(sa.props) = FieldNameSet(sb.props)
                 /\ \A i \in 1..Len(sa.props) :
                        SameUnfolding(sa.props[i].type,
                                      sb.props[find(sb.props, sa.props[i].name)].type,
                                      k - 1)

\* Rec N. {f: () => N}: a record whose only field is a function returning
\* the record type itself.
IsSelfRecord(t) ==
    /\ t.tag = "Rec"
    /\ t.type.tag = "Object"
    /\ Len(t.type.props) = 1
    /\ t.type.props[1].type = TFunc(<<>>, TTypeVar(t.name))

ObjFoo == TObject(<<Param("foo", TNumber)>>)
ObjFooBar == TObject(<<Param("foo", TNumber), Param("bar", TBoolean)>>)

(***************************************************************************)
(* Claims about the equality engine (SpecEq).                              *)
(***************************************************************************)
\* C1: typeEq is reflexive: typeEq(T, T) returns true for every well-formed
\* type T, self-referential Rec types included.
C1_TypeEqReflexive ==
    (Called("eq12") /\ ty1 = ty2) => res.eq12 = Ret(TRUE)

\* C2: typeEq is symmetric: typeEq(a, b) and typeEq(b, a) return the same
\* boolean for every pair of well-formed types.
C2_TypeEqSymmetric ==
    Called("eq21") =>
        /\ IsRet(res.eq12)
        /\ IsRet(res.eq21)
        /\ res.eq12 = res.eq21

\* C3: typeEq(a, b) returns true exactly when the unfoldings of a and b are
\* structurally identical to every bounded depth.
C3_TypeEqDecidesUnfolding ==
    Called("eq12") =>
        ((res.eq12 = Ret(TRUE)) <=> SameUnfolding(ty1, ty2, MaxUnfold))

\* C4: typeEq returns a boolean whenever one of its arguments is a
\* self-referential record Rec N. {f: () => N}, whatever the other one is.
C4_TypeEqTerminatesOnSelfRecord ==
    (Called("eq21") /\ (IsSelfRecord(ty1) \/ IsSelfRecord(ty2))) =>
        /\ IsRet(res.eq12)
        /\ IsRet(res.eq21)

\* C5: simplifyType terminates on every well-formed type and typeEq
\* terminates on every pair of well-formed types.
C5_TerminationStructural ==
    /\ Called("simp1") => res.simp1 # Diverges
    /\ Called("eq12") => res.eq12 # Diverges

(***************************************************************************)
(* Claims about the subtyping engine (SpecSub).                            *)
(***************************************************************************)
\* Every field of sup has a same-named field in sub whose type is a subtype
\* of sup's field type.
CoversFields(sub, sup) ==
    \A i \in 1..Len(sup.props) :
        \E j \in 1..Len(sub.props) :
            /\ sub.props[j].name = sup.props[i].name
            /\ subType(sub.props[j].type, sup.props[i].type) = Ret(TRUE)

\* C6: width subtyping: between Object types with unique field names,
\* subType(sub, sup) is true exactly when sub covers every field of sup with
\* a subtype; extra fields of sub are allowed, so {foo: Number, bar: Boolean}
\* is a subtype of {foo: Number} and not the other way round, also when both
\* are nested in a field, a parameter or a return type.
C6_WidthSubtyping ==
    Called("sub12") =>
        /\ (ty1.tag = "Object" /\ ty2.tag = "Object") =>
              ((res.sub12 = Ret(TRUE)) <=> CoversFields(ty1, ty2))
        /\ (ty1 = ObjFooBar /\ ty2 = ObjFoo) => res.sub12 = Ret(TRUE)
        /\ (ty1 = ObjFoo /\ ty2 = ObjFooBar) => res.sub12 = Ret(FALSE)
        /\ (ty1 = TObject(<<Param("foo", ObjFooBar)>>)
              /\ ty2 = TObject(<<Param("foo", ObjFoo)>>)) => res.sub12 = Ret(TRUE)
        /\ (ty1 = TObject(<<Param("foo", ObjFoo)>>)
              /\ ty2 = TObject(<<Param("foo", ObjFooBar)>>)) => res.sub12 = Ret(FALSE)

C6_Witness ==
    /\ Called("sub12")
    /\ ty1 = TObject(<<Param("foo", ObjFooBar)>>)
    /\ ty2 = TObject(<<Param("foo", ObjFoo)>>)
    /\ res.sub12 = Ret(TRUE)

\* C7: function variance: between Func types of equal parameter count,
\* subType is true exactly when every parameter of the second is a subtype
\* of the same parameter of the first and the return type of the first is a
\* subtype of that of the second; Func types of different parameter counts
\* are never subtypes.
C7_FuncVariance ==
    (Called("sub12") /\ ty1.tag = "Func" /\ ty2.tag = "Func") =>
        IF Len(ty1.params) = Len(ty2.params)
        THEN (res.sub12 = Ret(TRUE)) <=>
                /\ \A i \in 1..Len(ty1.params) :
                      subType(ty2.params[i].type, ty1.params[i].type) = Ret(TRUE)
                /\ subType(ty1.retType, ty2.retType) = Ret(TRUE)
        ELSE res.sub12 = Ret(FALSE)

\* A function type that is a subtype of another through a wider parameter,
\* while the reverse does not hold.
C7_Witness ==
    /\ Called("sub23")
    /\ ty3 = ty1
    /\ ty1 = TFunc(<<Param("x", ObjFoo)>>, TNumber)
    /\ ty2 = TFunc(<<Param("x", ObjFooBar)>>, TNumber)
    /\ res.sub12 = Ret(TRUE)
    /\ res.sub23 = Ret(FALSE)

\* C8: subType is reflexive: subType(A, A) returns true for every type A of
\* the data model, the Rec types included.
C8_SubTypeReflexive ==
    (Called("sub12") /\ ty1 = ty2) => res.sub12 = Ret(TRUE)

\* C9: subType is transitive: subType(A, B) and subType(B, C) imply
\* subType(A, C).
C9_SubTypeTransitive ==
    (Called("sub13") /\ res.sub12 = Ret(TRUE) /\ res.sub23 = Ret(TRUE)) =>
        res.sub13 = Ret(TRUE)

\* A chain of three different function types.
C9_Witness ==
    /\ Called("sub13")
    /\ ty1 = TFunc(<<>>, ObjFooBar)
    /\ ty2 = TFunc(<<>>, ObjFoo)
    /\ ty3 = TFunc(<<>>, TObject(<<>>))
    /\ res.sub12 = Ret(TRUE)
    /\ res.sub23 = Ret(TRUE)
    /\ res.sub13 = Ret(TRUE)

(***************************************************************************)
(* Claims about the drivers (SpecCheck).                                   *)
(***************************************************************************)
\* C10: call sites use subtyping: in the driver with subtyping and in the
\* driver with recursive types, a call whose argument type is a subtype of
\* the declared parameter type succeeds with the callee's return type, and
\* the parameter-type-mismatch error is raised only when the argument type
\* is not a subtype of the parameter type.
C10_CallSitesUseSubtyping ==
    (Called("rec") /\ term \in CallTerms) =>
        LET paramTy == term.func.params[1].type
            argTy == typecheckSub(term.args[1], env).ret
            mismatch == Err("parameter type mismatch", term.args[1])
        IN /\ subType(argTy, paramTy) = Ret(TRUE) =>
                (res.sub = Ret(paramTy) /\ res.rec = Ret(paramTy))
           /\ subType(argTy, paramTy) = Ret(FALSE) =>
                (res.sub = mismatch /\ res.rec = mismatch)

\* The type of a body of RecFuncBodies inside function f(x: paramTy): retType.
BodyType(paramTy, retType, body) ==
    CASE body = TmVar("f") -> TFunc(<<Param("x", paramTy)>>, retType)
      [] body = TmVar("x") -> paramTy
      [] body = SelfCall -> retType
      [] body = TmObjectNew(<<PropertyTerm("foo", TmFunc(<<>>, SelfCall))>>) ->
            TObject(<<Param("foo", TFunc(<<>>, retType))>>)
      [] OTHER -> CHOOSE ty \in PlainTypes : TermOf(ty) = body

\* C11: recursive-function contract: the body of a recFunc is checked with
\* the function name bound to the declared signature; a body whose type
\* differs from the declared return type gives the wrong-return-type error,
\* and otherwise the function name has the type Func(declared parameters,
\* declared return type) in rest.
C11_RecFuncContract ==
    (Called("rec") /\ term \in RecFuncTerms) =>
        LET sig == TFunc(term.params, term.retType)
            bodyTy == BodyType(term.params[1].type, term.retType, term.body)
        IN res.rec = IF SameUnfolding(term.retType, bodyTy, MaxUnfold)
                     THEN Ret(sig)
                     ELSE Err("wrong return type", term)

\* What checking an atom of OrderAtoms gives.
AtomOutcome(t) ==
    CASE t = TmTrue -> Ret(TBoolean)
      [] t = TmNumber(1) -> Ret(TNumber)
      [] t = IdFunc -> Ret(TFunc(IdFunc.params, TNumber))
      [] t = AddFunc -> Ret(TFunc(AddFunc.params, TNumber))
      [] t = LoopTerm -> Diverges
      [] OTHER -> Err("unknown variable", t)

\* The first failure in a list of checks <<[ok |-> ..., out |-> ...], ...>>
\* taken in order, or the result when every check passes.
FirstFailure(checks, result) ==
    IF \A i \in 1..Len(checks) : checks[i].ok THEN result
    ELSE checks[CHOOSE i \in 1..Len(checks) :
                    /\ ~checks[i].ok
                    /\ \A j \in 1..(i - 1) : checks[j].ok].out

Step(ok, out) == [ok |-> ok, out |-> out]

\* The outcome the traversal order of the claim gives for a term of
\* OrderTerms and its subterms.
RECURSIVE InOrder(_)
InOrder(t) ==
    CASE t.tag = "if" ->
            LET c == InOrder(t.cond)
                th == InOrder(t.thn)
                el == InOrder(t.els)
            IN FirstFailure(
                 <<Step(IsRet(c), c),
                   Step(c = Ret(TBoolean), Err("boolean expected", t.cond)),
                   Step(IsRet(th), th),
                   Step(IsRet(el), el),
                   Step(th = el, Err("then and else have different types", t))>>,
                 th)
      [] t.tag = "add" ->
            LET l == InOrder(t.left)
                r == InOrder(t.right)
            IN FirstFailure(
                 <<Step(IsRet(l), l),
                   Step(l = Ret(TNumber), Err("number expected", t.left)),
                   Step(IsRet(r), r),
                   Step(r = Ret(TNumber), Err("number expected", t.right))>>,
                 Ret(TNumber))
      [] t.tag = "call" ->
            LET f == InOrder(t.func)
                isFunc == IsRet(f) /\ f.ret.tag = "Func"
                sameCount == isFunc /\ Len(f.ret.params) = Len(t.args)
                arg(i) == InOrder(t.args[i])
                argSteps(i) ==
                    <<Step(IsRet(arg(i)), arg(i)),
                      Step(sameCount /\ arg(i) = Ret(f.ret.params[i].type),
                           Err("parameter type mismatch", t.args[i]))>>
                allArgs == IF Len(t.args) = 0 THEN <<>>
                           ELSE IF Len(t.args) = 1 THEN argSteps(1)
                           ELSE argSteps(1) \o argSteps(2)
            IN FirstFailure(
                 <<Step(IsRet(f), f),
                   Step(isFunc, Err("function type expected", t.func)),
                   Step(sameCount, Err("wrong number of arguments", t))>>
                   \o allArgs,
                 IF isFunc THEN Ret(f.ret.retType) ELSE f)
      [] OTHER -> AtomOutcome(t)

\* C12: typecheck reports the first violated rule of its traversal order and
\* nothing after it: for if, the condition's errors, boolean expected, the
\* then branch's errors, the else branch's errors, the branch mismatch; for
\* add, left errors, left not a number, right errors, right not a number;
\* for call, the callee's errors, function expected, the argument count,
\* then each argument's errors followed by its mismatch, left to right.  A
\* subterm after the failing point is not checked, even one whose check
\* would never return.
C12_FirstErrorInOrder ==
    (Called("rec") /\ term \in OrderTerms) => res.rec = InOrder(term)

\* The count mismatch is reported although both arguments are unbound
\* variables, and a failing first argument hides a second one whose check
\* never returns.
C12_Witness ==
    /\ Called("rec")
    /\ \/ /\ term = TmCall(IdFunc, <<TmVar("a"), TmVar("b")>>)
          /\ res.rec = Err("wrong number of arguments", term)
       \/ /\ term = TmCall(AddFunc, <<TmVar("a"), LoopTerm>>)
          /\ res.rec = Err("unknown variable", TmVar("a"))

\* The type of a literal or of a variable the environment binds.
LeafType(t, tyEnv) ==
    CASE t.tag \in {"true", "false"} -> TBoolean
      [] t.tag = "number" -> TNumber
      [] t.tag = "var" -> tyEnv[t.name]

\* 1 ? 2 : 3 fails on the condition and true ? 1 : true on the branches.
IfExamples ==
    /\ term = TmIf(TmNumber(1), TmNumber(2), TmNumber(3)) =>
         res.rec = Err("boolean expected", TmNumber(1))
    /\ term = TmIf(TmTrue, TmNumber(1), TmTrue) =>
         res.rec = Err("then and else have different types", term)

\* C13: conditional rule: an if term gives the boolean-expected error when
\* the unfolding of the condition's type is not Boolean, the branch-mismatch
\* error when the types of the branches are not equal, and otherwise the
\* type of the then branch.
C13_IfRule ==
    /\ (Called("rec") /\ term \in IfLiterals \cup {IfOfVars}) =>
           LET condTy == LeafType(term.cond, env)
               thnTy == LeafType(term.thn, env)
               elsTy == LeafType(term.els, env)
           IN res.rec =
                IF Unfolded(condTy).tag # "Boolean"
                THEN Err("boolean expected", term.cond)
                ELSE IF ~SameUnfolding(thnTy, elsTy, MaxUnfold)
                     THEN Err("then and else have different types", term)
                ELSE Ret(thnTy)
    /\ Called("rec") => IfExamples

\* C14: recursive-type end-to-end: the definition of numbers is accepted,
\* and for every k, numbers(1) followed by k times (.rest)() has the type
\* NumStream (the Rec type) and its field num has the type Number; the
\* program of the test gives NumStream.
C14_NumStream ==
    Called("rec") =>
        /\ \A k \in 0..MaxChain :
             /\ term = StreamProgram(TmNumber(1), k, "") =>
                  res.rec = Ret(NumStream)
             /\ term = StreamProgram(TmNumber(1), k, "num") =>
                  res.rec = Ret(TNumber)
        /\ term = StreamTest => res.rec = Ret(NumStream)

C14_Witness ==
    /\ Called("rec")
    /\ term = StreamProgram(TmNumber(1), 2, "num")
    /\ res.rec = Ret(TNumber)

\* What checking t alone from the environment tyEnv gives.
Alone(t, tyEnv) == typecheckHeap(t, 1, <<tyEnv>>).out

\* The outcome of two siblings a and b checked one after the other from the
\* same environment, each on its own.
SiblingsAlone(t, tyEnv) ==
    CASE t.tag = "seq" ->
            LET a == Alone(t.body, tyEnv)
            IN IF ~IsRet(a) THEN a ELSE Alone(t.rest, tyEnv)
      [] t.tag = "objectNew" ->
            LET a == Alone(t.props[1].term, tyEnv)
                b == Alone(t.props[2].term, tyEnv)
            IN IF ~IsRet(a) THEN a
               ELSE IF ~IsRet(b) THEN b
               ELSE Ret(TObject(<<Param("foo", a.ret), Param("bar", b.ret)>>))
      [] t.tag = "add" ->
            LET a == Alone(t.left, tyEnv)
                b == Alone(t.right, tyEnv)
            IN FirstFailure(
                 <<Step(IsRet(a), a),
                   Step(a = Ret(TNumber), Err("number expected", t.left)),
                   Step(IsRet(b), b),
                   Step(b = Ret(TNumber), Err("number expected", t.right))>>,
                 Ret(TNumber))

\* C15: environment extension never changes the caller's environment: when
\* typecheck(term, env) returns or fails, env has the bindings it had
\* before, and two siblings checked from the same environment give what
\* each gives alone: a name bound inside one is not visible in the other.
C15_EnvNotMutated ==
    [][TypecheckFrameCall =>
         /\ env' = env
         /\ term.tag \in {"seq", "objectNew", "add"} =>
                res'.frame = SiblingsAlone(term, env)]_vars

\* (x: number) => x; x from the empty environment: x is unknown in the
\* second sibling and the environment is still empty.
C15_Witness ==
    /\ Called("frame")
    /\ term = TmSeq(IdFunc, TmVar("x"))
    /\ env = EmptyMap
    /\ res.frame = Err("unknown variable", TmVar("x"))

\* C16: scope of a recursive function definition: rest is checked in the
\* outer environment extended with the function name only, so a reference
\* in rest to the function name has the signature, a reference to a
\* parameter name the outer environment does not bind gives the
\* unknown-variable error, and a parameter name the outer environment binds
\* keeps its outer type.
C16_RecFuncRestScope ==
    \A p \in {"x", "toString"} :
        /\ (Called("rec") /\ term = RecRestOf(p, TmVar("f"))) =>
                res.rec = Ret(TFunc(<<Param(p, TNumber)>>, TNumber))
        /\ (Called("rec") /\ term = RecRestOf(p, TmVar(p))) =>
                res.rec = IF p \in OwnNames(env) THEN Ret(env[p])
                          ELSE Err("unknown variable", TmVar(p))

\* The bindings in force, innermost first: pairs <<name, type>>.
RECURSIVE EnvBindings(_)
EnvBindings(tyEnv) ==
    IF OwnNames(tyEnv) = {} THEN <<>>
    ELSE LET n == CHOOSE k \in OwnNames(tyEnv) : TRUE
         IN <<<<n, tyEnv[n]>>>> \o EnvBindings([k \in OwnNames(tyEnv) \ {n} |-> tyEnv[k]])

\* The outcome of a term of ScopeTerms when a variable has the type of its
\* innermost binding and an unbound variable is an error.
RECURSIVE Scoped(_, _)
Scoped(t, bs) ==
    CASE t.tag = "var" ->
            IF \E i \in 1..Len(bs) : bs[i][1] = t.name
            THEN Ret(bs[CHOOSE i \in 1..Len(bs) :
                            /\ bs[i][1] = t.name
                            /\ \A j \in 1..(i - 1) : bs[j][1] # t.name][2])
            ELSE Err("unknown variable", t)
      [] t.tag = "number" -> Ret(TNumber)
      [] t.tag = "true" -> Ret(TBoolean)
      [] t.tag = "func" ->
            LET b == Scoped(t.body, <<<<t.params[1].name, t.params[1].type>>>> \o bs)
            IN IF IsRet(b) THEN Ret(TFunc(t.params, b.ret)) ELSE b
      [] t.tag = "const" ->
            Scoped(t.rest, <<<<t.name, Scoped(t.init, bs).ret>>>> \o bs)
      [] t.tag = "recFunc" ->
            LET sig == TFunc(t.params, t.retType)
                b == Scoped(t.body,
                            <<<<t.funcName, sig>>,
                              <<t.params[1].name, t.params[1].type>>>> \o bs)
            IN IF ~IsRet(b) THEN b
               ELSE IF b.ret # t.retType THEN Err("wrong return type", t)
               ELSE Scoped(t.rest, <<<<t.funcName, sig>>>> \o bs)

\* C17: variable lookup: a variable that no enclosing func parameter, const
\* or recFunc binds and that the initial environment does not contain gives
\* the unknown-variable error, and a bound variable has the type of its
\* innermost binding; the result is always a type or that error.
C17_VarLookup ==
    (Called("rec") /\ term \in ScopeTerms) =>
        res.rec = Scoped(term, EnvBindings(env))

\* C18: the renaming-aware comparison checks the parameter-list length:
\* typeEqNaive returns false for two Func types with different numbers of
\* parameters, in either argument order, and reads no parameter index that
\* one of the lists lacks.
C18_NaiveChecksParamCount ==
    (/\ Called("naive21")
     /\ ty1.tag = "Func"
     /\ ty2.tag = "Func"
     /\ Len(ty1.params) # Len(ty2.params)) =>
        /\ res.naive12 = Ret(FALSE)
        /\ res.naive21 = Ret(FALSE)

\* The component types of a type, in order: the parameter types and then
\* the return type of a Func, the field types of an Object, the body of a
\* Rec.
Children(ty) ==
    CASE ty.tag = "Func" ->
            [i \in 1..(Len(ty.params) + 1) |->
                IF i <= Len(ty.params) THEN ty.params[i].type ELSE ty.retType]
      [] ty.tag = "Object" -> [i \in 1..Len(ty.props) |-> ty.props[i].type]
      [] ty.tag = "Rec" -> <<ty.type>>
      [] OTHER -> <<>>

\* The tag of a type with the names it carries, in order.
Label(ty) ==
    CASE ty.tag = "Func" ->
            <<"Func", [i \in 1..Len(ty.params) |-> ty.params[i].name]>>
      [] ty.tag = "Object" ->
            <<"Object", [i \in 1..Len(ty.props) |-> ty.props[i].name]>>
      [] ty.tag \in {"Rec", "TypeVar"} -> <<ty.tag, <<ty.name>>>>
      [] OTHER -> <<ty.tag, <<>>>>

\* The positions of a type: the paths of child indices from its root.
RECURSIVE Paths(_)
Paths(ty) ==
    {<<>>} \cup UNION {{<<i>> \o p : p \in Paths(Children(ty)[i])} :
                       i \in 1..Len(Children(ty))}

\* The type at a position, and a value that is no type where there is none.
RECURSIVE At(_, _)
At(ty, p) ==
    IF p = <<>> THEN ty
    ELSE IF Head(p) \in 1..Len(Children(ty))
         THEN At(Children(ty)[Head(p)], Tail(p))
         ELSE [tag |-> "none"]

\* A Rec strictly above the position binds the name.
Rebound(ty, p, name) ==
    \E k \in 0..(Len(p) - 1) :
        LET n == At(ty, SubSeq(p, 1, k))
        IN  n.tag = "Rec" /\ n.name = name

\* out is ty with rep in the place of every variable called name that no
\* nested Rec rebinds, position by position.
Substituted(ty, name, rep, out) ==
    \A p \in Paths(ty) :
        LET n == At(ty, p)
            o == At(out, p)
        IN  IF Rebound(ty, p, name) THEN o = n
            ELSE IF n.tag = "TypeVar" /\ n.name = name THEN o = rep
            ELSE Label(o) = Label(n)

\* C19: expandType(ty, name, rep) is ty with every TypeVar called name that
\* is not under a nested Rec binding that name replaced by rep; the other
\* TypeVars and the whole body of a nested Rec that rebinds the name are
\* unchanged, and every tag, parameter name, field name and their order is
\* preserved.  The unfolding of a well-formed Rec holds no free TypeVar.
C19_ExpandRespectsShadowing ==
    Called("unfold") =>
        /\ Substituted(ty1.type, ty1.name, ty2, res.expand.ret)
        /\ Substituted(ty1.type, ty1.name, ty1, res.unfold.ret)
        /\ WellFormed(ty1) => FreeVars(res.unfold.ret) = {}

\* A well-formed Rec whose body has the bound variable both as a parameter
\* type and under a nested Rec that rebinds it, unfolded.
C19_Witness ==
    /\ Called("unfold")
    /\ ty1 = TRec("X", TFunc(<<Param("x", TTypeVar("X"))>>,
                             TRec("X", TFunc(<<Param("x", TTypeVar("X"))>>,
                                             TTypeVar("X")))))
    /\ ty2 = TNumber
    /\ res.expand.ret.params[1].type = TNumber
    /\ res.expand.ret.retType = ty1.type.retType
    /\ res.unfold.ret.params[1].type = ty1

\* C20: for two well-formed types, typeEq(a, b) reaches no TypeVar branch
\* that throws "unreachable", no typeEqNaive call of a seen membership test
\* throws, and typeEq ends by returning a boolean.
C20_TypeEqReturnsBoolean ==
    Called("eq12") =>
        /\ res.eq12 # Throw("unreachable")
        /\ ~IsThrow(res.eq12)
        /\ IsRet(res.eq12)
        /\ res.eq12.ret \in BOOLEAN

\* C21: subType handles recursive types: with a self-referential record type
\* (Rec N. {f: () => N}) as either argument, subType ends with a boolean
\* result; it neither loops nor aborts.
C21_SubTypeHandlesRec ==
    (Called("sub23") /\ (IsSelfRecord(ty1) \/ IsSelfRecord(ty2))) =>
        /\ res.sub12 \in {Ret(TRUE), Ret(FALSE)}
        /\ res.sub23 \in {Ret(TRUE), Ret(FALSE)}

\* Two Object types with the same fields, listed in any order.
SameFields(t1, t2) ==
    /\ t1.tag = "Object"
    /\ t2.tag = "Object"
    /\ {t1.props[i] : i \in 1..Len(t1.props)} = {t2.props[i] : i \in 1..Len(t2.props)}

\* C22: on types built from Boolean, Number, Func and Object with unique
\* field names, typeEq of the recursive-type driver returns the same boolean
\* as the structural typeEq of the earlier drivers, in whatever order the
\* fields of an Object are listed.
C22_AgreesWithStructural ==
    Called("struct12") =>
        /\ res.eq12 \in {Ret(TRUE), Ret(FALSE)}
        /\ res.eq12 = res.struct12
        /\ SameFields(ty1, ty2) => res.eq12 = Ret(TRUE)

\* Both engines have compared two records that list the same two fields in
\* opposite orders.
C22_Witness ==
    /\ Called("struct12")
    /\ ty1 = TObject(<<Param("foo", TNumber), Param("bar", TBoolean)>>)
    /\ ty2 = TObject(<<Param("bar", TBoolean), Param("foo", TNumber)>>)
    /\ res.eq12 = Ret(TRUE)
    /\ res.struct12 = Ret(TRUE)

\* C23: the renaming-aware comparison, started with an empty renaming map as
\* at a seen membership test, fails by returning false and not by raising
\* when it meets a TypeVar on both sides whose binder name is not in the
\* renaming map.
C23_UnknownTypeVarReturnsFalse ==
    Called("naive21") =>
        /\ res.naive12 # Throw("unknown type variable")
        /\ res.naive21 # Throw("unknown type variable")
        /\ (ty1.tag = "TypeVar" /\ ty2.tag = "TypeVar") =>
                res.naive12 = Ret(FALSE) /\ res.naive21 = Ret(FALSE)
====
